---- MODULE Spec2Model ----
(***************************************************************************)
(* Pico2CV: the step sequencer (src/src/sequencer/Sequencer.cpp), driven   *)
(* through HardwareSequencerIO over SystemState's scale table.             *)
(*                                                                         *)
(* The Sequencer object is modelled field by field.  Every method is an    *)
(* operator from a Sequencer value (a record of the fields) to the         *)
(* Sequencer value after the call; an action applies one public method to  *)
(* the current object.  The sequencer is constructed with an I/O interface *)
(* (the constructor taking a SequencerIO), so every if (io) branch is taken. *)
(*                                                                         *)
(* float values are exact rationals: Step::velocity is stored in units of  *)
(* 1/VelUnit and Step::filter in units of 1/FiltUnit, which hold every     *)
(* value the code computes from its integer inputs (k/127, k/1000, k/10).  *)
(***************************************************************************)
EXTENDS Integers, Sequences, FiniteSets, TLC

\* ------------------------------------------------------------ constants
SEQUENCER_NUM_STEPS == 16
SCALE_ARRAY_SIZE == 40
scaleSize == SCALE_ARRAY_SIZE
MIDI_BASE_NOTE == 36
NOTE_DURATION_TICKS == 24
MIDI_CHANNEL == 1
SCALE_ROWS == 5
SCALE_COLS == 48
TICKS_PER_STEP == 6
CLOCK_NUM_STEPS == 16
MATRIX_BUTTON_COUNT == 32
MATRIX_ROW_INPUTS == <<3, 2, 1, 0>>
MATRIX_COL_INPUTS == <<4, 5, 6, 7, 8, 9, 10, 11>>

\* The units of the float fields: velocity x is stored as x * VelUnit, filter
\* x as x * FiltUnit.
VelUnit == 127 * 1000
FiltUnit == 2 * 5
\* The envelope level is a float; the model keeps it in units of 2^-24, the
\* spacing of the floats in [0.5, 1).  Below 0.5 the floats are finer than
\* this grid.
LevelUnit == 2 ^ 24
\* The float literals of adsr.cpp in these units.
ATTACK_TARGET == 16944988
RELEASE_TARGET == -167772
SUSTAIN_EPSILON == 1678
DEFAULT_SUSTAIN == 11744051

\* ------------------------------------------------------------ bounds
\* random(200,1000) is drawn from the generator; its state at an init() call
\* is one of 0..MaxSeed.
MaxSeed == 0
\* The tick count since a NoteOn is followed up to MaxAge, then saturates.
MaxAge == 30
\* Calls are explored while at most MaxOutstanding NoteOns are unanswered.
MaxOutstanding == 3
\* At most MaxEdits calls that change a step are explored after construction
\* or the last init().
MaxEdits == 1
\* Rising gate edges and Retrigger calls explored in one behaviour.
MaxTriggers == 2
\* Ticks followed after ClockManager::start(): 96 ticks are one pass over the
\* 16 steps.
MaxTicks == 97

\* ------------------------------------------------------------ state
VARIABLES
  steps,                \* SequencerState::steps[16]
  playhead,             \* SequencerState::playhead
  running,              \* SequencerState::running
  stepLength,           \* Sequencer::stepLength
  lastNote,             \* Sequencer::lastNote (int8_t)
  currentNote,          \* Sequencer::currentNote (int8_t, -1: none)
  noteDurationCounter,  \* Sequencer::noteDurationCounter (uint16_t)
  scale,                \* SystemState::scale[5][48]
  out,                  \* the SequencerIO calls made by the last public call
  outstanding,          \* NoteOn messages sent minus NoteOff messages sent
  peak,                 \* the highest value of outstanding during the last call
  age,                  \* tickNoteDuration calls since the last NoteOn
  edits,                \* step-changing calls since construction or init()
  clockTick,            \* ClockManager::currentTick
  clockStep,            \* ClockManager::currentStep
  offAge,               \* age at the last NoteOff sent under the clock
  offBy,                \* the callback that sent the last NoteOff under the clock
  mpr121,               \* Matrix: the sensor pointer is set
  matrixButtons,        \* Matrix: button -> (rowInput, colInput)
  buttonState,          \* Matrix: the stored state of every button
  eventHandler,         \* Matrix: a generic event handler is registered
  risingEdgeHandler,    \* Matrix: a rising-edge handler is registered
  callbacks,            \* the handler invocations of the last Matrix call
  touchBits,            \* the bitmask the last scan read (NoBits: none since Matrix_init)
  prevBits,             \* the bitmask the scan before it read
  mode_,                \* Adsr: the segment
  x_,                   \* Adsr: the level, in units of 1/LevelUnit
  gate_,                \* Adsr: the gate of the last Process call
  sus_level_,           \* Adsr: the sustain level, in units of 1/LevelUnit
  attackTarget_,        \* Adsr: the level the attack approaches
  attackD0_,            \* Adsr: the attack coefficient <<numerator, denominator>>
  decayD0_,             \* Adsr: the decay coefficient
  releaseD0_,           \* Adsr: the release coefficient
  adsrOut,              \* the value the last Process call returned
  triggers,             \* rising gate edges and Retrigger calls so far
  clockRunning,         \* ClockManager::running
  sinceLastStep,        \* ClockManager: micros() - lastStepTime at the last update
  stepCallback,         \* ClockManager: a step callback is registered
  clockCallback,        \* ClockManager: a tick callback is registered
  clockOut,             \* the callbacks the last ClockManager call invoked
  ticksEmitted,         \* ticks emitted since start()
  starved,              \* whole tick intervals the last update() dropped
  note1,                \* SystemState::note1
  vel1,                 \* SystemState::vel1, in units of 1/VelUnit
  freq1,                \* SystemState::freq1, in units of 1/FiltUnit
  pending,              \* the stores advanceStep has still to make
  seen,                 \* the values the audio context loaded last
  rpc,                  \* the field the audio context loads next
  stores,               \* the store calls made so far
  trigenv1,             \* SystemState::trigenv1, as the clock-driven calls leave it
  trigWas,              \* trigenv1 just before the last triggerEnvelope under the clock
  delivered             \* Matrix: the type of the last generic event delivered per button

seqVars == <<steps, playhead, running, stepLength, lastNote, currentNote,
             noteDurationCounter, out, outstanding, peak, age, edits>>
clockVars == <<clockTick, clockStep, offAge, offBy>>
matrixVars == <<mpr121, matrixButtons, buttonState, eventHandler, risingEdgeHandler,
                callbacks, touchBits, prevBits>>
adsrVars == <<mode_, x_, gate_, sus_level_, attackTarget_, attackD0_, decayD0_, releaseD0_,
              adsrOut, triggers>>
managerVars == <<clockRunning, sinceLastStep, stepCallback, clockCallback, clockOut,
                 ticksEmitted, starved>>
atomicVars == <<note1, vel1, freq1, pending, seen, rpc, stores>>
triggerVars == <<trigenv1, trigWas>>
pressVars == <<delivered>>
vars == <<seqVars, scale, clockVars, matrixVars, adsrVars, managerVars, atomicVars, triggerVars, pressVars>>

StepRange == 0..(SEQUENCER_NUM_STEPS - 1)

\* SystemState: note1{0}, vel1{0.5f}, freq1{440.0f}
INITIAL_NOTE1 == 0
INITIAL_VEL1 == VelUnit \div 2
INITIAL_FREQ1 == 440 * FiltUnit

\* No generic event has been delivered for any button.
NoneDelivered == [i \in 0..(MATRIX_BUTTON_COUNT - 1) |-> "none"]

\* No bitmask has been read.
NoBits == -1

\* ------------------------------------------------------------ integer types
ToU8(x) == x % 256
ToI8(x) == IF (x % 256) >= 128 THEN (x % 256) - 256 ELSE x % 256
ToU16(x) == x % 65536

\* C's integer division: the quotient is truncated toward zero.
TruncDiv(a, b) ==
  IF (a >= 0) = (b > 0) THEN (IF a >= 0 THEN a ELSE -a) \div (IF b > 0 THEN b ELSE -b)
  ELSE -((IF a >= 0 THEN a ELSE -a) \div (IF b > 0 THEN b ELSE -b))

\* Arduino's map(): long arithmetic.
map(x, in_min, in_max, out_min, out_max) ==
  TruncDiv((x - in_min) * (out_max - out_min), in_max - in_min) + out_min

constrain(x, lo, hi) == IF x < lo THEN lo ELSE IF x > hi THEN hi ELSE x

\* ------------------------------------------------------------ Step
\* Step(): the default member initialisers.
DefaultStep == [gate |-> FALSE, slide |-> FALSE, note |-> 0,
                velocity |-> VelUnit \div 2, filter |-> FiltUnit \div 2]

MkStep(g, s, n, v, f) == [gate |-> g, slide |-> s, note |-> n, velocity |-> v, filter |-> f]

\* ------------------------------------------------------------ the object
Cur == [steps |-> steps, playhead |-> playhead, running |-> running,
        stepLength |-> stepLength, lastNote |-> lastNote,
        currentNote |-> currentNote, noteDurationCounter |-> noteDurationCounter,
        out |-> out, outstanding |-> outstanding, peak |-> peak, age |-> age]

\* A public call starts with an empty call log.
Begin(s) == [s EXCEPT !.out = <<>>, !.peak = s.outstanding]

Commit(s) ==
  /\ s.outstanding <= MaxOutstanding
  /\ steps' = s.steps
  /\ playhead' = s.playhead
  /\ running' = s.running
  /\ stepLength' = s.stepLength
  /\ lastNote' = s.lastNote
  /\ currentNote' = s.currentNote
  /\ noteDurationCounter' = s.noteDurationCounter
  /\ out' = s.out
  /\ outstanding' = s.outstanding
  /\ peak' = s.peak
  /\ age' = s.age
  /\ (s.steps # steps) => edits < MaxEdits
  /\ edits' = IF s.steps # steps THEN edits + 1 ELSE edits

\* init() rewrites every step: the count of edits starts again.
CommitInit(s) ==
  /\ steps' = s.steps
  /\ playhead' = s.playhead
  /\ running' = s.running
  /\ stepLength' = s.stepLength
  /\ lastNote' = s.lastNote
  /\ currentNote' = s.currentNote
  /\ noteDurationCounter' = s.noteDurationCounter
  /\ out' = s.out
  /\ outstanding' = s.outstanding
  /\ peak' = s.peak
  /\ age' = s.age
  /\ edits' = 0

\* ------------------------------------------------------------ SequencerIO
\* HardwareSequencerIO forwards every call; the model logs it.
Io(s, c) == [s EXCEPT !.out = Append(@, c)]

sendNoteOn(s, note, velocity, channel) ==
  LET t == Io(s, <<"sendNoteOn", ToU8(note), ToU8(velocity), channel>>)
  IN [t EXCEPT !.outstanding = @ + 1,
               !.peak = IF s.outstanding + 1 > @ THEN s.outstanding + 1 ELSE @,
               !.age = 0]

sendNoteOff(s, note, velocity, channel) ==
  LET t == Io(s, <<"sendNoteOff", ToU8(note), ToU8(velocity), channel>>)
  IN [t EXCEPT !.outstanding = @ - 1, !.age = 0]

\* SystemState::getScaleNote
getScaleNote(scaleIndex, noteIndex) ==
  IF scaleIndex >= 0 /\ scaleIndex < SCALE_ROWS /\ noteIndex >= 0 /\ noteIndex < SCALE_COLS
  THEN scale[scaleIndex][noteIndex]
  ELSE 0

\* SystemState(): the chromatic default table.
DefaultScale == [i \in 0..(SCALE_ROWS - 1) |-> [j \in 0..(SCALE_COLS - 1) |-> j]]

\* ------------------------------------------------------------ voice
\* Mutant: the NoteOff is sent but the voice state is not cleared.
handleNoteOff_KeepsNote(s) ==
  IF s.currentNote >= 0
  THEN sendNoteOff(s, s.currentNote, 0, MIDI_CHANNEL)
  ELSE s

\* Mutant: the NoteOff leaves the countdown as it is.
handleNoteOff_KeepsCounter(s) ==
  IF s.currentNote >= 0
  THEN [sendNoteOff(s, s.currentNote, 0, MIDI_CHANNEL) EXCEPT !.currentNote = -1]
  ELSE s

handleNoteOff(s) ==
  IF s.currentNote >= 0
  THEN [sendNoteOff(s, s.currentNote, 0, MIDI_CHANNEL)
          EXCEPT !.currentNote = -1, !.noteDurationCounter = 0]
  ELSE s

\* float velocity * 127 converted to the uint8_t parameter: truncation.
VelocityByte(velocity) == TruncDiv(velocity * 127, VelUnit)

startNote(s, note, velocity, duration) ==
  LET t == [s EXCEPT !.currentNote = ToI8(ToU8(note)),
                     !.noteDurationCounter = ToU16(duration)]
  IN sendNoteOn(t, t.currentNote, VelocityByte(velocity), MIDI_CHANNEL)

releaseEnvelope(s) == Io(s, <<"releaseEnvelope">>)

\* Mutant: the countdown runs out without sending the NoteOff.
tickNoteDuration_NoNoteOff(s) ==
  LET a == [s EXCEPT !.age = IF s.outstanding > 0
                              THEN (IF @ < MaxAge THEN @ + 1 ELSE @)
                              ELSE @]
  IN IF a.currentNote >= 0 /\ a.noteDurationCounter > 1
     THEN [a EXCEPT !.noteDurationCounter = @ - 1]
     ELSE a

\* Mutant: the countdown fires one tick early.
tickNoteDuration_OneEarly(s) ==
  LET a == [s EXCEPT !.age = IF s.outstanding > 0
                              THEN (IF @ < MaxAge THEN @ + 1 ELSE @)
                              ELSE @]
  IN IF a.currentNote >= 0 /\ a.noteDurationCounter > 0
     THEN LET d == [a EXCEPT !.noteDurationCounter = @ - 1]
          IN IF d.noteDurationCounter <= 1
             THEN releaseEnvelope(handleNoteOff(d))
             ELSE d
     ELSE a

tickNoteDuration(s) ==
  LET a == [s EXCEPT !.age = IF s.outstanding > 0
                              THEN (IF @ < MaxAge THEN @ + 1 ELSE @)
                              ELSE @]
  IN IF a.currentNote >= 0 /\ a.noteDurationCounter > 0
     THEN LET d == [a EXCEPT !.noteDurationCounter = @ - 1]
          IN IF d.noteDurationCounter = 0
             THEN releaseEnvelope(handleNoteOff(d))
             ELSE d
     ELSE a

\* ------------------------------------------------------------ playback
\* Mutant: the note is used as the index without a clamp.
ScaleIndexOf_NoClamp(note) == ToU8(note)

\* uint8_t scaleIndex = (note >= scaleSize) ? 0 : note, the int note converted
\* to size_t for the comparison.
ScaleIndexOf(note) ==
  LET i == IF note < 0 \/ note >= scaleSize THEN 0 ELSE ToU8(note)
  IN IF i >= SCALE_ARRAY_SIZE THEN 0 ELSE i

ResolveNote(note) == MIDI_BASE_NOTE + getScaleNote(0, ScaleIndexOf(note))

\* Mutant: the NoteOn is sent before the targets are written.
PlayGated_NoteOnFirst(s, currentStep) ==
  LET new_midi_note == ResolveNote(currentStep.note)
      e == startNote(s, new_midi_note, currentStep.velocity, NOTE_DURATION_TICKS)
      a == Io(e, <<"setNote1", new_midi_note>>)
      b == Io(a, <<"setVel1", currentStep.velocity>>)
      c == Io(b, <<"setFreq1", currentStep.filter * 1>>)
      d == Io(c, <<"triggerEnvelope">>)
  IN [d EXCEPT !.lastNote = ToI8(new_midi_note)]

\* The calls of advanceStep's gated branch.
PlayGated(s, currentStep) ==
  LET new_midi_note == ResolveNote(currentStep.note)
      a == Io(s, <<"setNote1", new_midi_note>>)
      b == Io(a, <<"setVel1", currentStep.velocity>>)
      c == Io(b, <<"setFreq1", currentStep.filter * 1>>)
      d == Io(c, <<"triggerEnvelope">>)
      e == startNote(d, new_midi_note, currentStep.velocity, NOTE_DURATION_TICKS)
  IN [e EXCEPT !.lastNote = ToI8(new_midi_note)]

\* Mutant: the previous note is silenced only on a rest.
advanceStep_NoForcedOff(s, current_uclock_step) ==
  LET s2 == [s EXCEPT !.playhead = ToU8(current_uclock_step) % s.stepLength]
      currentStep == s2.steps[s2.playhead]
  IN IF currentStep.gate
     THEN PlayGated(s2, currentStep)
     ELSE [releaseEnvelope(handleNoteOff(s2)) EXCEPT !.lastNote = -1]

\* Mutant: the step index wraps at the array size, not at stepLength.
advanceStep_WrapAtArray(s, current_uclock_step) ==
  LET s1 == IF s.currentNote >= 0 THEN handleNoteOff(s) ELSE s
      s2 == [s1 EXCEPT !.playhead = ToU8(current_uclock_step) % SEQUENCER_NUM_STEPS]
      currentStep == s2.steps[s2.playhead]
  IN IF currentStep.gate
     THEN PlayGated(s2, currentStep)
     ELSE [releaseEnvelope(handleNoteOff(s2)) EXCEPT !.lastNote = -1]

\* Mutant: a rest does not release the envelope.
advanceStep_RestNoRelease(s, current_uclock_step) ==
  LET s1 == IF s.currentNote >= 0 THEN handleNoteOff(s) ELSE s
      s2 == [s1 EXCEPT !.playhead = ToU8(current_uclock_step) % s1.stepLength]
      currentStep == s2.steps[s2.playhead]
  IN IF currentStep.gate
     THEN PlayGated(s2, currentStep)
     ELSE [handleNoteOff(s2) EXCEPT !.lastNote = -1]

advanceStep(s, current_uclock_step) ==
  LET s1 == IF s.currentNote >= 0 THEN handleNoteOff(s) ELSE s
      s2 == [s1 EXCEPT !.playhead = ToU8(current_uclock_step) % s1.stepLength]
      currentStep == s2.steps[s2.playhead]
  IN IF currentStep.gate
     THEN PlayGated(s2, currentStep)
     ELSE [releaseEnvelope(handleNoteOff(s2)) EXCEPT !.lastNote = -1]

\* Mutant: the preview starts the note as advanceStep does.
playStepNow_StartsNote(s, stepIdx) ==
  IF ToU8(stepIdx) >= s.stepLength THEN s
  ELSE PlayGated(s, s.steps[ToU8(stepIdx)])

playStepNow(s, stepIdx) ==
  IF ToU8(stepIdx) >= s.stepLength THEN s
  ELSE LET currentStep == s.steps[ToU8(stepIdx)]
           new_midi_note == ResolveNote(currentStep.note)
           a == Io(s, <<"setNote1", new_midi_note>>)
           b == Io(a, <<"setVel1", currentStep.velocity>>)
           c == Io(b, <<"setFreq1", currentStep.filter * 5000>>)
       IN Io(c, <<"triggerEnvelope">>)

\* ------------------------------------------------------------ transport
start(s) == [s EXCEPT !.running = TRUE]

\* Mutant: stop() silences the voice.
stop_Silences(s) == [releaseEnvelope(handleNoteOff(s)) EXCEPT !.running = FALSE]

stop(s) == [s EXCEPT !.running = FALSE]

setLastNote(s, note) == [s EXCEPT !.lastNote = ToI8(note)]

\* Mutant: the length is stored unchecked.
setStepLength_Unchecked(s, len) == [s EXCEPT !.stepLength = ToU8(len)]

setStepLength(s, len) ==
  [s EXCEPT !.stepLength = IF ToU8(len) > 0 /\ ToU8(len) <= SEQUENCER_NUM_STEPS
                           THEN ToU8(len) ELSE SEQUENCER_NUM_STEPS]

\* ------------------------------------------------------------ init
\* random(200, 1000): the k-th value drawn from generator state seed.  The
\* generator is the Arduino core's; all the code fixes is the range.
random(seed, k) == 200 + ((397 * seed + 131 * k) % (1000 - 200))

\* Mutant: the steps at and past stepLength are left as they were.
initializeSteps_NoClear(s, seed) ==
  [s EXCEPT !.steps =
     [i \in StepRange |->
        IF i < s.stepLength
        THEN [DefaultStep EXCEPT !.note = 0, !.gate = TRUE,
                                 !.velocity = (100 * VelUnit) \div 127,
                                 !.filter = random(seed, i) * FiltUnit]
        ELSE s.steps[i]]]

initializeSteps(s, seed) ==
  [s EXCEPT !.steps =
     [i \in StepRange |->
        IF i < s.stepLength
        THEN [DefaultStep EXCEPT !.note = 0, !.gate = TRUE,
                                 !.velocity = (100 * VelUnit) \div 127,
                                 !.filter = random(seed, i) * FiltUnit]
        ELSE [DefaultStep EXCEPT !.gate = FALSE]]]

init(s, seed) ==
  initializeSteps([s EXCEPT !.playhead = 0, !.running = FALSE], seed)

\* ------------------------------------------------------------ step setters
\* Mutant: the index is checked against the array size, not stepLength.
toggleStep_ArrayBound(s, stepIdx) ==
  IF ToU8(stepIdx) >= SEQUENCER_NUM_STEPS THEN s
  ELSE [s EXCEPT !.steps[ToU8(stepIdx)].gate = ~@]

toggleStep(s, stepIdx) ==
  IF ToU8(stepIdx) >= s.stepLength THEN s
  ELSE [s EXCEPT !.steps[ToU8(stepIdx)].gate = ~@]

setStepNote(s, stepIdx, noteIndex) ==
  IF ToU8(stepIdx) >= s.stepLength THEN s
  ELSE [s EXCEPT !.steps[ToU8(stepIdx)].note = ToU8(noteIndex)]

setStepVelocity(s, stepIdx, velocityByte) ==
  IF ToU8(stepIdx) >= s.stepLength THEN s
  ELSE [s EXCEPT !.steps[ToU8(stepIdx)].velocity = (ToU8(velocityByte) * VelUnit) \div 127]

setStepFiltFreq(s, stepIdx, filter) ==
  IF ToU8(stepIdx) >= s.stepLength THEN s
  ELSE [s EXCEPT !.steps[ToU8(stepIdx)].filter = filter]

\* setStep(int index, bool gate, bool slide, int note, float velocity, float filter)
setStep(s, index, gate, slide, note, velocity, filter) ==
  IF index < 0 \/ index >= s.stepLength THEN s
  ELSE IF note < 0 \/ note > 24 THEN s
  ELSE IF velocity < 0 \/ velocity > VelUnit THEN s
  ELSE IF filter < 0 \/ filter > FiltUnit THEN s
  ELSE [s EXCEPT !.steps[index] = MkStep(gate, slide, ToU8(note), velocity, filter)]

\* setStep(int index, const Step& stepData)
setStepData(s, index, stepData) ==
  IF index < 0 \/ index >= s.stepLength THEN s
  ELSE IF stepData.note < 0 \/ stepData.note > 24 THEN s
  ELSE IF stepData.velocity < 0 \/ stepData.velocity > VelUnit THEN s
  ELSE IF stepData.filter < 0 \/ stepData.filter > FiltUnit THEN s
  ELSE [s EXCEPT !.steps[index] = stepData]

\* ------------------------------------------------------------ live recording
\* Mutant: only the first held button writes, as in the branch without a selection.
RecordSelected_FirstHeld(s, mm_distance, is_button16_held, is_button17_held, is_button18_held, sel) ==
  LET noteIndex == constrain(map(mm_distance, 50, 400, 0, 24), 0, 24)
      velocity == constrain((map(mm_distance, 50, 400, 0, 127) * VelUnit) \div 127, 0, VelUnit)
      filterFreq == constrain(map(mm_distance, 50, 400, 200, 2000) * FiltUnit,
                              200 * FiltUnit, 2000 * FiltUnit)
  IN IF is_button16_held THEN setStepNote(s, sel, noteIndex)
     ELSE IF is_button17_held THEN setStepVelocity(s, sel, VelocityByte(velocity))
     ELSE IF is_button18_held THEN setStepFiltFreq(s, sel, filterFreq)
     ELSE s

RecordSelected(s, mm_distance, is_button16_held, is_button17_held, is_button18_held, sel) ==
  LET noteIndex == constrain(map(mm_distance, 50, 400, 0, 24), 0, 24)
      a == IF is_button16_held THEN setStepNote(s, sel, noteIndex) ELSE s
      velocity == constrain((map(mm_distance, 50, 400, 0, 127) * VelUnit) \div 127, 0, VelUnit)
      b == IF is_button17_held THEN setStepVelocity(a, sel, VelocityByte(velocity)) ELSE a
      filterFreq == constrain(map(mm_distance, 50, 400, 200, 2000) * FiltUnit,
                              200 * FiltUnit, 2000 * FiltUnit)
  IN IF is_button18_held THEN setStepFiltFreq(b, sel, filterFreq) ELSE b

\* Mutant: every held button writes, as in the branch with a selection.
RecordPlaying_AllHeld(s, mm_distance, is_button16_held, is_button17_held, is_button18_held) ==
  LET currentStep == s.steps[s.playhead]
      mmNote == constrain(map(mm_distance, 0, 1400, 0, 24), 0, 24)
      mmVelocity == constrain(map(mm_distance, 0, 1400, 0, 1000), 0, 1000)
      mmFiltFreq == constrain(map(mm_distance, 0, 1400, 0, 2000), 0, 2000)
      a == IF is_button16_held THEN [s EXCEPT !.steps[s.playhead].note = mmNote] ELSE s
      b == IF is_button17_held
           THEN [a EXCEPT !.steps[s.playhead].velocity = (mmVelocity * VelUnit) \div 1000]
           ELSE a
      c == IF is_button18_held THEN [b EXCEPT !.steps[s.playhead].filter = mmFiltFreq * FiltUnit]
           ELSE b
  IN IF ~currentStep.gate THEN s ELSE c

RecordPlaying(s, mm_distance, is_button16_held, is_button17_held, is_button18_held) ==
  LET currentStep == s.steps[s.playhead]
      mmNote == constrain(map(mm_distance, 0, 1400, 0, 24), 0, 24)
      mmVelocity == constrain(map(mm_distance, 0, 1400, 0, 1000), 0, 1000)
      mmFiltFreq == constrain(map(mm_distance, 0, 1400, 0, 2000), 0, 2000)
  IN IF ~currentStep.gate THEN s
     ELSE IF is_button16_held THEN [s EXCEPT !.steps[s.playhead].note = mmNote]
     ELSE IF is_button17_held
          THEN [s EXCEPT !.steps[s.playhead].velocity = (mmVelocity * VelUnit) \div 1000]
     ELSE IF is_button18_held THEN [s EXCEPT !.steps[s.playhead].filter = mmFiltFreq * FiltUnit]
     ELSE s

recordLiveParameters(s, mm_distance, is_button16_held, is_button17_held, is_button18_held, current_selected_step_for_edit) ==
  LET a == IF current_selected_step_for_edit >= 0
              /\ current_selected_step_for_edit < s.stepLength
           THEN RecordSelected(s, mm_distance, is_button16_held, is_button17_held,
                               is_button18_held, current_selected_step_for_edit)
           ELSE s
  IN IF current_selected_step_for_edit = -1
     THEN RecordPlaying(a, mm_distance, is_button16_held, is_button17_held, is_button18_held)
     ELSE a

\* ------------------------------------------------------------ actions
Init ==
  /\ steps = [i \in StepRange |-> DefaultStep]
  /\ playhead = 0
  /\ running = FALSE
  /\ stepLength = SEQUENCER_NUM_STEPS
  /\ lastNote = -1
  /\ currentNote = -1
  /\ noteDurationCounter = 0
  /\ scale = DefaultScale
  /\ out = <<>>
  /\ outstanding = 0
  /\ peak = 0
  /\ age = 0
  /\ edits = 0
  /\ clockTick = 0
  /\ clockStep = 0
  /\ offAge = 0
  /\ offBy = "none"
  /\ mpr121 = FALSE
  /\ matrixButtons = [i \in 0..(MATRIX_BUTTON_COUNT - 1) |-> [rowInput |-> 0, colInput |-> 0]]
  /\ buttonState = [i \in 0..(MATRIX_BUTTON_COUNT - 1) |-> FALSE]
  /\ eventHandler = FALSE
  /\ risingEdgeHandler = FALSE
  /\ callbacks = <<>>
  /\ touchBits = NoBits
  /\ prevBits = NoBits
  /\ mode_ = "IDLE"
  /\ x_ = 0
  /\ gate_ = FALSE
  /\ sus_level_ = DEFAULT_SUSTAIN
  /\ attackTarget_ = ATTACK_TARGET
  /\ attackD0_ = <<1, 2>>
  /\ decayD0_ = <<1, 2>>
  /\ releaseD0_ = <<1, 2>>
  /\ adsrOut = 0
  /\ triggers = 0
  /\ clockRunning = FALSE
  /\ sinceLastStep = 0
  /\ stepCallback = FALSE
  /\ clockCallback = FALSE
  /\ clockOut = <<>>
  /\ ticksEmitted = 0
  /\ starved = 0
  /\ note1 = INITIAL_NOTE1
  /\ vel1 = INITIAL_VEL1
  /\ freq1 = INITIAL_FREQ1
  /\ pending = <<>>
  /\ seen = [note1 |-> INITIAL_NOTE1, vel1 |-> INITIAL_VEL1, freq1 |-> INITIAL_FREQ1]
  /\ rpc = 0
  /\ stores = {}
  /\ trigenv1 = FALSE
  /\ trigWas = FALSE
  /\ delivered = NoneDelivered

\* The arguments the calls are explored with.  Each set holds values inside
\* and outside the range the callee accepts.
AdvanceArgs == {0, 1, 17}
IdxArgs == {0, 2, 255}
IntIdxArgs == {-1, 0, 2}
LenArgs == {0, 1, 17}
NoteArgs == {25}
VelByteArgs == {255}
FiltFreqArgs == {-(FiltUnit \div 10)}
\* (gate, slide, note, velocity, filter): one acceptable Step, and one with
\* each field out of range (note 25, velocity 1.1, filter -0.1).
StepArgs ==
  { MkStep(FALSE, TRUE, 24, VelUnit, FiltUnit),
    MkStep(TRUE, TRUE, 25, VelUnit, FiltUnit),
    MkStep(TRUE, TRUE, 24, (11 * VelUnit) \div 10, FiltUnit),
    MkStep(TRUE, TRUE, 24, VelUnit, -(FiltUnit \div 10)) }
Distances == {1400}
SelArgs == {-1, 0, 16}
LastNoteArgs == {-1}
Seeds == 0..MaxSeed

Others == UNCHANGED <<scale, clockVars, matrixVars, adsrVars, managerVars, atomicVars, triggerVars, pressVars>>

AdvanceStepCall ==
  /\ \E i \in AdvanceArgs : Commit(advanceStep(Begin(Cur), i))
  /\ Others

TickNoteDurationCall ==
  /\ Commit(tickNoteDuration(Begin(Cur)))
  /\ Others

HandleNoteOffCall ==
  /\ Commit(handleNoteOff(Begin(Cur)))
  /\ Others

PlayStepNowCall ==
  /\ \E i \in IdxArgs : Commit(playStepNow(Begin(Cur), i))
  /\ Others

InitCall ==
  /\ \E seed \in Seeds : CommitInit(init(Begin(Cur), seed))
  /\ Others

StartCall ==
  /\ Commit(start(Begin(Cur)))
  /\ Others

StopCall ==
  /\ Commit(stop(Begin(Cur)))
  /\ Others

SetLastNoteCall ==
  /\ \E n \in LastNoteArgs : Commit(setLastNote(Begin(Cur), n))
  /\ Others

SetStepLengthCall ==
  /\ \E len \in LenArgs : Commit(setStepLength(Begin(Cur), len))
  /\ Others

ToggleStepCall ==
  /\ \E i \in IdxArgs : Commit(toggleStep(Begin(Cur), i))
  /\ Others

SetStepNoteCall ==
  /\ \E i \in IdxArgs, n \in NoteArgs : Commit(setStepNote(Begin(Cur), i, n))
  /\ Others

SetStepVelocityCall ==
  /\ \E i \in IdxArgs, v \in VelByteArgs : Commit(setStepVelocity(Begin(Cur), i, v))
  /\ Others

SetStepFiltFreqCall ==
  /\ \E i \in IdxArgs, f \in FiltFreqArgs : Commit(setStepFiltFreq(Begin(Cur), i, f))
  /\ Others

SetStepCall ==
  /\ \E i \in IntIdxArgs, d \in StepArgs :
        Commit(setStep(Begin(Cur), i, d.gate, d.slide, d.note, d.velocity, d.filter))
  /\ Others

SetStepDataCall ==
  /\ \E i \in IntIdxArgs, d \in StepArgs : Commit(setStepData(Begin(Cur), i, d))
  /\ Others

RecordLiveParametersCall ==
  /\ \E mm \in Distances, b16 \in BOOLEAN, b17 \in BOOLEAN, b18 \in BOOLEAN,
        sel \in SelArgs :
        Commit(recordLiveParameters(Begin(Cur), mm, b16, b17, b18, sel))
  /\ Others

Next ==
  \/ AdvanceStepCall
  \/ TickNoteDurationCall
  \/ HandleNoteOffCall
  \/ PlayStepNowCall
  \/ InitCall
  \/ StartCall
  \/ StopCall
  \/ SetLastNoteCall
  \/ SetStepLengthCall
  \/ ToggleStepCall
  \/ SetStepNoteCall
  \/ SetStepVelocityCall
  \/ SetStepFiltFreqCall
  \/ SetStepCall
  \/ SetStepDataCall
  \/ RecordLiveParametersCall

Spec == Init /\ [][Next]_vars

\* ------------------------------------------------------------ wraparound
\* advanceStep over every uint8_t step index and every sequence length.
WrapLenArgs == 0..(SEQUENCER_NUM_STEPS + 1)
WrapStepArgs == 0..255

WrapAdvanceStepCall ==
  /\ \E i \in WrapStepArgs : Commit(advanceStep(Begin(Cur), i))
  /\ Others

WrapSetStepLengthCall ==
  /\ \E len \in WrapLenArgs : Commit(setStepLength(Begin(Cur), len))
  /\ Others

NextWrap ==
  \/ WrapAdvanceStepCall
  \/ WrapSetStepLengthCall
  \/ ToggleStepCall

SpecWrap == Init /\ [][NextWrap]_vars

\* ------------------------------------------------------------ clock drive
\* ClockManager::update() on an elapsed tick interval, with the tick callback
\* wired to tickNoteDuration and the step callback to advanceStep: the tick
\* callback runs on every tick, and on every TICKS_PER_STEP-th tick the step
\* counter advances and the step callback runs after it.
\* HardwareSequencerIO::triggerEnvelope stores true to trigenv1,
\* releaseEnvelope stores false: the flag after the calls of a log.
RECURSIVE FlagAfter(_, _)
FlagAfter(flag, log) ==
  IF log = <<>> THEN flag
  ELSE FlagAfter(IF Head(log)[1] = "triggerEnvelope" THEN TRUE
                 ELSE IF Head(log)[1] = "releaseEnvelope" THEN FALSE
                 ELSE flag, Tail(log))

\* The position of the triggerEnvelope call in a log, 0 if there is none.
TriggerAt(log) ==
  IF \E k \in 1..Len(log) : log[k][1] = "triggerEnvelope"
  THEN CHOOSE k \in 1..Len(log) : log[k][1] = "triggerEnvelope"
  ELSE 0

SentNoteOff(before, after) ==
  \E k \in (Len(before.out) + 1)..Len(after.out) : after.out[k][1] = "sendNoteOff"

ClockUpdate ==
  LET tick == (clockTick + 1) % TICKS_PER_STEP
      stepNow == tick = 0
      step == IF stepNow THEN (clockStep + 1) % CLOCK_NUM_STEPS ELSE clockStep
      s0 == Begin(Cur)
      s1 == tickNoteDuration(s0)
      s2 == IF stepNow THEN advanceStep(s1, step) ELSE s1
      ageNow == IF s0.age < MaxAge THEN s0.age + 1 ELSE s0.age
  IN /\ Commit(s2)
     /\ clockTick' = tick
     /\ clockStep' = step
     /\ offBy' = IF SentNoteOff(s0, s1) THEN "tickNoteDuration"
                 ELSE IF SentNoteOff(s1, s2) THEN "advanceStep"
                 ELSE offBy
     /\ offAge' = IF SentNoteOff(s0, s1) \/ SentNoteOff(s1, s2) THEN ageNow ELSE offAge
     /\ trigenv1' = FlagAfter(trigenv1, s2.out)
     /\ trigWas' = IF TriggerAt(s2.out) > 0
                   THEN FlagAfter(trigenv1, SubSeq(s2.out, 1, TriggerAt(s2.out) - 1))
                   ELSE trigWas
     /\ UNCHANGED <<scale, matrixVars, adsrVars, managerVars, atomicVars, pressVars>>

NextClock ==
  \/ ClockUpdate
  \/ InitCall
  \/ ToggleStepCall

SpecClock == Init /\ [][NextClock]_vars

\* ------------------------------------------------------------ init anywhere
\* init() called at every sequence length, on patterns that were edited and
\* while a note sounds.
NextInit ==
  \/ InitCall
  \/ WrapSetStepLengthCall
  \/ ToggleStepCall
  \/ AdvanceStepCall
  \/ StartCall

SpecInit == Init /\ [][NextInit]_vars

\* ------------------------------------------------------------ live recording
\* recordLiveParameters over distance readings below, inside and above both
\* input ranges ([50,400] with a selection, [0,1400] without), with a step
\* selected, none selected (-1) and a selection past the sequence.
RecDistances == {0, 49, 225, 400, 1400, 1500}
RecSelArgs == {-1, 0, 16}

RecordAnyCall ==
  /\ \E mm \in RecDistances, b16 \in BOOLEAN, b17 \in BOOLEAN, b18 \in BOOLEAN,
        sel \in RecSelArgs :
        Commit(recordLiveParameters(Begin(Cur), mm, b16, b17, b18, sel))
  /\ Others

NextRecord ==
  \/ RecordAnyCall
  \/ InitCall
  \/ AdvanceStepCall
  \/ ToggleStepCall
  \/ SetStepLengthCall

SpecRecord == Init /\ [][NextRecord]_vars

\* ------------------------------------------------------------ preview
\* playStepNow and advanceStep on steps holding notes at both ends of the
\* validated range (0, 24), at the last index of the scale table (39), just
\* past it (40) and at the largest uint8_t.
PlayNoteArgs == {24, 39, 40, 255}
PlayIdxArgs == {0, 1, 16, 255}

PlaySetStepNoteCall ==
  /\ \E i \in PlayIdxArgs, n \in PlayNoteArgs : Commit(setStepNote(Begin(Cur), i, n))
  /\ Others

PlayStepNowAnyCall ==
  /\ \E i \in PlayIdxArgs : Commit(playStepNow(Begin(Cur), i))
  /\ Others

PlayAdvanceStepCall ==
  /\ \E i \in PlayIdxArgs : Commit(advanceStep(Begin(Cur), i))
  /\ Others

NextPlay ==
  \/ PlayStepNowAnyCall
  \/ PlayAdvanceStepCall
  \/ PlaySetStepNoteCall
  \/ TickNoteDurationCall
  \/ InitCall
  \/ ToggleStepCall
  \/ SetStepLengthCall
  \/ StartCall

SpecPlay == Init /\ [][NextPlay]_vars

\* ------------------------------------------------------------ transport
\* start() and stop() between the calls that play notes.
NextTransport ==
  \/ StartCall
  \/ StopCall
  \/ AdvanceStepCall
  \/ TickNoteDurationCall
  \/ InitCall

SpecTransport == Init /\ [][NextTransport]_vars

\* ------------------------------------------------------------ Matrix
\* The file-scope state of Matrix.cpp as one record.
Mx == [mpr121 |-> mpr121, matrixButtons |-> matrixButtons, buttonState |-> buttonState,
       eventHandler |-> eventHandler, risingEdgeHandler |-> risingEdgeHandler,
       callbacks |-> callbacks, touchBits |-> touchBits, prevBits |-> prevBits]

\* A public Matrix call starts with no handler invoked.
BeginMx(m) == [m EXCEPT !.callbacks = <<>>]

CommitMx(m) ==
  /\ mpr121' = m.mpr121
  /\ matrixButtons' = m.matrixButtons
  /\ buttonState' = m.buttonState
  /\ eventHandler' = m.eventHandler
  /\ risingEdgeHandler' = m.risingEdgeHandler
  /\ callbacks' = m.callbacks
  /\ touchBits' = m.touchBits
  /\ prevBits' = m.prevBits

\* touchBits & (1 << k)
Bit(bits, k) == (bits \div (2 ^ k)) % 2 = 1

setupMatrixMapping(m) ==
  [m EXCEPT !.matrixButtons =
     [idx \in 0..(MATRIX_BUTTON_COUNT - 1) |->
        [rowInput |-> MATRIX_ROW_INPUTS[(idx \div 8) + 1],
         colInput |-> MATRIX_COL_INPUTS[(idx % 8) + 1]]]]

\* Mutant: one of the two inputs is enough.
scanMatrixButton_Or(btn, bits) == Bit(bits, btn.rowInput) \/ Bit(bits, btn.colInput)

scanMatrixButton(btn, bits) == Bit(bits, btn.rowInput) /\ Bit(bits, btn.colInput)

\* The registered handlers are application code; an invocation is logged with
\* its arguments (the rising-edge handler has no event type: "none") and with
\* what Matrix_getButtonState(i) returns during it.
Invoke(m, cb, i, type) ==
  [m EXCEPT !.callbacks = Append(@, [cb |-> cb, buttonIndex |-> i, type |-> type,
                                     stored |-> m.buttonState[i]])]

\* Mutant: the new state of a button is not stored.
UpdateButton_NoStore(m, bits, i) ==
  LET prev == m.buttonState[i]
      curr == scanMatrixButton(m.matrixButtons[i], bits)
      b == IF curr /\ m.risingEdgeHandler THEN Invoke(m, "risingEdge", i, "none") ELSE m
      c == IF b.eventHandler
           THEN Invoke(b, "event", i, IF curr THEN "PRESSED" ELSE "RELEASED")
           ELSE b
  IN IF curr # prev THEN c ELSE m

\* Mutant: the rising-edge handler is invoked for every pressed button.
UpdateButton_Level(m, bits, i) ==
  LET prev == m.buttonState[i]
      curr == scanMatrixButton(m.matrixButtons[i], bits)
      a == [m EXCEPT !.buttonState[i] = curr]
      b == IF curr /\ a.risingEdgeHandler THEN Invoke(a, "risingEdge", i, "none") ELSE a
      c == IF b.eventHandler /\ curr # prev
           THEN Invoke(b, "event", i, IF curr THEN "PRESSED" ELSE "RELEASED")
           ELSE b
  IN c

\* Mutant: the generic handler is invoked before the rising-edge handler.
UpdateButton_EventFirst(m, bits, i) ==
  LET prev == m.buttonState[i]
      curr == scanMatrixButton(m.matrixButtons[i], bits)
      a == [m EXCEPT !.buttonState[i] = curr]
      b == IF a.eventHandler
           THEN Invoke(a, "event", i, IF curr THEN "PRESSED" ELSE "RELEASED")
           ELSE a
      c == IF curr /\ b.risingEdgeHandler THEN Invoke(b, "risingEdge", i, "none") ELSE b
  IN IF curr # prev THEN c ELSE m

\* One iteration of the loop of updateButtonStates.
UpdateButton(m, bits, i) ==
  LET prev == m.buttonState[i]
      curr == scanMatrixButton(m.matrixButtons[i], bits)
      a == [m EXCEPT !.buttonState[i] = curr]
      b == IF curr /\ a.risingEdgeHandler THEN Invoke(a, "risingEdge", i, "none") ELSE a
      c == IF b.eventHandler
           THEN Invoke(b, "event", i, IF curr THEN "PRESSED" ELSE "RELEASED")
           ELSE b
  IN IF curr # prev THEN c ELSE m

\* The handler invocations of iterations i, i + 1, ... of the loop, in order.
RECURSIVE InvokedFrom(_, _, _)
InvokedFrom(m, bits, i) ==
  IF i >= MATRIX_BUTTON_COUNT THEN <<>>
  ELSE UpdateButton([m EXCEPT !.callbacks = <<>>], bits, i).callbacks
         \o InvokedFrom(m, bits, i + 1)

\* for (i = 0; i < MATRIX_BUTTON_COUNT; ++i): iteration i reads and writes
\* buttonState[i] alone, and the handlers are invoked in the order of i.
updateButtonStates(m, bits) ==
  [m EXCEPT !.buttonState = [i \in 0..(MATRIX_BUTTON_COUNT - 1) |->
                               UpdateButton(m, bits, i).buttonState[i]],
            !.callbacks = @ \o InvokedFrom(m, bits, 0)]

Matrix_init(m, sensor) ==
  [setupMatrixMapping(m) EXCEPT
     !.mpr121 = sensor,
     !.buttonState = [i \in 0..(MATRIX_BUTTON_COUNT - 1) |-> FALSE],
     !.eventHandler = FALSE,
     !.touchBits = NoBits,
     !.prevBits = NoBits]

\* touched is what mpr121->touched() returns.
Matrix_scan(m, touched) ==
  IF ~m.mpr121 THEN m
  ELSE updateButtonStates([m EXCEPT !.touchBits = touched, !.prevBits = m.touchBits], touched)

Matrix_getButtonState(m, idx) ==
  IF ToU8(idx) >= MATRIX_BUTTON_COUNT THEN FALSE ELSE m.buttonState[ToU8(idx)]

Matrix_setEventHandler(m, handler) == [m EXCEPT !.eventHandler = handler]

Matrix_setRisingEdgeHandler(m, handler) == [m EXCEPT !.risingEdgeHandler = handler]

\* The touch bitmasks the scans read: every combination of the sensor inputs
\* of rows 0 and 3 (inputs 3 and 0) and columns 0 and 7 (inputs 4 and 11),
\* which press and release buttons 0, 7, 24 and 31 alone and together.
TouchInputs == {0, 3, 4, 11}

RECURSIVE MaskOf(_)
MaskOf(S) ==
  IF S = {} THEN 0
  ELSE LET k == CHOOSE x \in S : TRUE IN (2 ^ k) + MaskOf(S \ {k})

TouchArgs == {MaskOf(S) : S \in SUBSET TouchInputs}

MatrixOthers == UNCHANGED <<seqVars, scale, clockVars, adsrVars, managerVars, atomicVars, triggerVars, pressVars>>

MatrixInitCall ==
  /\ \E sensor \in BOOLEAN : CommitMx(Matrix_init(BeginMx(Mx), sensor))
  /\ MatrixOthers

MatrixScanCall ==
  /\ \E touched \in TouchArgs : CommitMx(Matrix_scan(BeginMx(Mx), touched))
  /\ MatrixOthers

MatrixSetEventHandlerCall ==
  /\ \E handler \in BOOLEAN : CommitMx(Matrix_setEventHandler(BeginMx(Mx), handler))
  /\ MatrixOthers

MatrixSetRisingEdgeHandlerCall ==
  /\ \E handler \in BOOLEAN : CommitMx(Matrix_setRisingEdgeHandler(BeginMx(Mx), handler))
  /\ MatrixOthers

NextMatrix ==
  \/ MatrixInitCall
  \/ MatrixScanCall
  \/ MatrixSetEventHandlerCall
  \/ MatrixSetRisingEdgeHandlerCall

SpecMatrix == Init /\ [][NextMatrix]_vars

\* ---- Matrix: the generic events of a run of scans ----
\* The generic events a handler receives when it is registered after
\* Matrix_init and before the first scan, and stays registered.

\* The generic events for button i in a log, in order.
EventsFor(log, i) == SelectSeq(log, LAMBDA c : c.cb = "event" /\ c.buttonIndex = i)

\* The type of the last generic event delivered per button, after a log.
DeliveredAfter(d, log) ==
  [i \in 0..(MATRIX_BUTTON_COUNT - 1) |->
     IF EventsFor(log, i) = <<>> THEN d[i]
     ELSE EventsFor(log, i)[Len(EventsFor(log, i))].type]

PressOthers == UNCHANGED <<seqVars, scale, clockVars, adsrVars, managerVars, atomicVars, triggerVars>>

PressInitCall ==
  /\ \E sensor \in BOOLEAN : CommitMx(Matrix_init(BeginMx(Mx), sensor))
  /\ delivered' = NoneDelivered
  /\ PressOthers

PressSetEventHandlerCall ==
  /\ touchBits = NoBits
  /\ \E handler \in BOOLEAN : CommitMx(Matrix_setEventHandler(BeginMx(Mx), handler))
  /\ UNCHANGED delivered
  /\ PressOthers

PressSetRisingEdgeHandlerCall ==
  /\ \E handler \in BOOLEAN : CommitMx(Matrix_setRisingEdgeHandler(BeginMx(Mx), handler))
  /\ UNCHANGED delivered
  /\ PressOthers

PressScanCall ==
  /\ \E touched \in TouchArgs :
       LET t == Matrix_scan(BeginMx(Mx), touched)
       IN CommitMx(t) /\ delivered' = DeliveredAfter(delivered, t.callbacks)
  /\ PressOthers

NextPress ==
  \/ PressInitCall
  \/ PressSetEventHandlerCall
  \/ PressSetRisingEdgeHandlerCall
  \/ PressScanCall

SpecPress == Init /\ [][NextPress]_vars

\* ------------------------------------------------------------ Adsr
Env == [mode_ |-> mode_, x_ |-> x_, gate_ |-> gate_, sus_level_ |-> sus_level_,
        attackTarget_ |-> attackTarget_, attackD0_ |-> attackD0_, decayD0_ |-> decayD0_,
        releaseD0_ |-> releaseD0_, adsrOut |-> adsrOut, triggers |-> triggers]

CommitEnv(e) ==
  /\ e.triggers <= MaxTriggers
  /\ mode_' = e.mode_
  /\ x_' = e.x_
  /\ gate_' = e.gate_
  /\ sus_level_' = e.sus_level_
  /\ attackTarget_' = e.attackTarget_
  /\ attackD0_' = e.attackD0_
  /\ decayD0_' = e.decayD0_
  /\ releaseD0_' = e.releaseD0_
  /\ adsrOut' = e.adsrOut
  /\ triggers' = e.triggers

\* a / den rounded to the nearest integer; a tie goes to the neighbour that
\* makes x + result even (the float sum rounds to nearest, ties to even).
RoundNearest(a, den, x) ==
  LET q == a \div den
      r == a - q * den
  IN IF 2 * r > den THEN q + 1
     ELSE IF 2 * r < den THEN q
     ELSE IF (x + q) % 2 = 0 THEN q ELSE q + 1

\* x_ += D0 * (target - x_)
Approach(x, D0, target) == x + RoundNearest((target - x) * D0[1], D0[2], x)

\* Mutant: every retrigger is a hard one.
Retrigger_AlwaysHard(e, hard) ==
  [e EXCEPT !.mode_ = "ATTACK", !.x_ = 0, !.triggers = @ + 1]

\* Retrigger(bool hard)
Retrigger(e, hard) ==
  [e EXCEPT !.mode_ = "ATTACK", !.x_ = IF hard THEN 0 ELSE @, !.triggers = @ + 1]

\* Mutant: a falling edge starts the release (the branch the code has
\* commented out).
ProcessGate_FallingRelease(e, gate) ==
  [e EXCEPT !.mode_ = IF gate /\ ~e.gate_ THEN "ATTACK"
                      ELSE IF ~gate /\ e.gate_ THEN "RELEASE" ELSE @,
            !.gate_ = gate,
            !.triggers = IF gate /\ ~e.gate_ THEN @ + 1 ELSE @]

\* Process, lines 80-84: the gate edge.
ProcessGate(e, gate) ==
  [e EXCEPT !.mode_ = IF gate /\ ~e.gate_ THEN "ATTACK" ELSE @,
            !.gate_ = gate,
            !.triggers = IF gate /\ ~e.gate_ THEN @ + 1 ELSE @]

\* Mutant: the attack is not clamped at 1.
ProcessSegment_NoClamp(e) ==
  LET D0 == IF e.mode_ = "DECAY" THEN e.decayD0_
            ELSE IF e.mode_ = "RELEASE" THEN e.releaseD0_
            ELSE e.attackD0_
      up == Approach(e.x_, D0, e.attackTarget_)
      down == Approach(e.x_, D0, e.sus_level_)
      off == Approach(e.x_, D0, RELEASE_TARGET)
  IN CASE e.mode_ = "IDLE" -> [e EXCEPT !.adsrOut = 0]
       [] e.mode_ = "ATTACK" ->
            [e EXCEPT !.x_ = up, !.adsrOut = up,
                      !.mode_ = IF up > LevelUnit THEN "DECAY" ELSE @]
       [] e.mode_ = "DECAY" ->
            [e EXCEPT !.x_ = down, !.adsrOut = down,
                      !.mode_ = IF (IF down >= e.sus_level_ THEN down - e.sus_level_
                                    ELSE e.sus_level_ - down) < SUSTAIN_EPSILON
                                THEN "RELEASE" ELSE @]
       [] e.mode_ = "RELEASE" ->
            IF off < 0
            THEN [e EXCEPT !.x_ = 0, !.adsrOut = 0, !.mode_ = "IDLE"]
            ELSE [e EXCEPT !.x_ = off, !.adsrOut = off]
       [] OTHER -> [e EXCEPT !.adsrOut = 0]

\* Process, lines 86-135: one sample of the current segment.
ProcessSegment(e) ==
  LET D0 == IF e.mode_ = "DECAY" THEN e.decayD0_
            ELSE IF e.mode_ = "RELEASE" THEN e.releaseD0_
            ELSE e.attackD0_
      target == IF e.mode_ = "DECAY" THEN e.sus_level_ ELSE RELEASE_TARGET
      up == Approach(e.x_, D0, e.attackTarget_)
      down == Approach(e.x_, D0, e.sus_level_)
      off == Approach(e.x_, D0, target)
  IN CASE e.mode_ = "IDLE" -> [e EXCEPT !.adsrOut = 0]
       [] e.mode_ = "ATTACK" ->
            IF up > LevelUnit
            THEN [e EXCEPT !.x_ = LevelUnit, !.adsrOut = LevelUnit, !.mode_ = "DECAY"]
            ELSE [e EXCEPT !.x_ = up, !.adsrOut = up]
       [] e.mode_ = "DECAY" ->
            [e EXCEPT !.x_ = down, !.adsrOut = down,
                      !.mode_ = IF (IF down >= e.sus_level_ THEN down - e.sus_level_
                                    ELSE e.sus_level_ - down) < SUSTAIN_EPSILON
                                THEN "RELEASE" ELSE @]
       [] e.mode_ = "RELEASE" ->
            IF off < 0
            THEN [e EXCEPT !.x_ = 0, !.adsrOut = 0, !.mode_ = "IDLE"]
            ELSE [e EXCEPT !.x_ = off, !.adsrOut = off]
       [] OTHER -> [e EXCEPT !.adsrOut = 0]

Process(e, gate) == ProcessSegment(ProcessGate(e, gate))

\* SetTime(seg, time): the coefficient the time gives is coeff, in (0, 1].
SetTime(e, seg, coeff) ==
  CASE seg = "ATTACK" -> [e EXCEPT !.attackD0_ = coeff, !.attackTarget_ = ATTACK_TARGET]
    [] seg = "DECAY" -> [e EXCEPT !.decayD0_ = coeff]
    [] seg = "RELEASE" -> [e EXCEPT !.releaseD0_ = coeff]
    [] OTHER -> e

SetSustainLevel(e, sus_level) == [e EXCEPT !.sus_level_ = sus_level]

\* Coefficients: an instant segment, and time constants of 1.4 and 3.5 samples.
CoeffArgs == {<<1, 1>>, <<1, 2>>, <<1, 4>>}
\* Sustain levels 0, 1/2, 0.7 and 1.
SusArgs == {0, LevelUnit \div 2, DEFAULT_SUSTAIN, LevelUnit}
SegArgs == {"ATTACK", "DECAY", "RELEASE"}

AdsrOthers == UNCHANGED <<seqVars, scale, clockVars, matrixVars, managerVars, atomicVars, triggerVars, pressVars>>

AdsrProcessCall ==
  /\ \E gate \in BOOLEAN : CommitEnv(Process(Env, gate))
  /\ AdsrOthers

AdsrRetriggerCall ==
  /\ \E hard \in BOOLEAN : CommitEnv(Retrigger(Env, hard))
  /\ AdsrOthers

\* The parameters are set before the envelope is first triggered.
AdsrSetTimeCall ==
  /\ triggers = 0
  /\ \E seg \in SegArgs, coeff \in CoeffArgs : CommitEnv(SetTime(Env, seg, coeff))
  /\ AdsrOthers

AdsrSetSustainLevelCall ==
  /\ triggers = 0
  /\ \E sus_level \in SusArgs : CommitEnv(SetSustainLevel(Env, sus_level))
  /\ AdsrOthers

NextAdsr ==
  \/ AdsrProcessCall
  \/ AdsrRetriggerCall
  \/ AdsrSetTimeCall
  \/ AdsrSetSustainLevelCall

SpecAdsr == Init /\ [][NextAdsr]_vars

\* ============================================================ claims
IsCall(c, name) == c[1] = name

\* The positions of the calls named name in a call log.
CallsOf(log, name) == {k \in 1..Len(log) : IsCall(log[k], name)}

\* C1 (monophony): under every interleaving of the calls, the number of NoteOn
\* messages sent minus the number of NoteOff messages sent is 0 or 1 after
\* every call and after every message within a call; and an advanceStep that
\* lands on a gated step while a note is active first sends sendNoteOff for
\* that note and then exactly one sendNoteOn, also when both notes are equal.
C1_Monophony ==
  /\ outstanding \in {0, 1}
  /\ peak \in {0, 1}
  /\ \A i \in AdvanceArgs :
       LET t == advanceStep(Begin(Cur), i)
       IN (currentNote >= 0 /\ steps[ToU8(i) % stepLength].gate) =>
            /\ t.out[1] = <<"sendNoteOff", ToU8(currentNote), 0, MIDI_CHANNEL>>
            /\ CallsOf(t.out, "sendNoteOff") = {1}
            /\ CallsOf(t.out, "sendNoteOn") = {Len(t.out)}
            /\ Len(t.out) > 1

\* An advanceStep has replaced an active note by the same note: its log
\* starts with the NoteOff and ends with the NoteOn of one note number.
C1_Witness ==
  /\ Len(out) > 1
  /\ IsCall(out[1], "sendNoteOff")
  /\ IsCall(out[Len(out)], "sendNoteOn")
  /\ out[1][2] = out[Len(out)][2]
  /\ outstanding = 1

\* C3 (voice state): currentNote is set (>= 0) exactly when a NoteOn has been
\* sent that no later NoteOff answers.
C3_VoiceState == (currentNote >= 0) <=> (outstanding > 0)

\* A note is active on its last tick, after an edit of the pattern.
C3_Witness == currentNote >= 0 /\ outstanding = 1 /\ noteDurationCounter = 1 /\ edits > 0

\* C4 (safety net): a NoteOn is never left unanswered over 24 calls of
\* tickNoteDuration: while it is outstanding, fewer than 24 ticks have followed it.
C4_SafetyNet == outstanding > 0 => age < NOTE_DURATION_TICKS

\* The 24th tick has sent the NoteOff: the last call logged sendNoteOff and
\* releaseEnvelope and left lastNote set, which only tickNoteDuration does.
C4_Witness ==
  /\ Len(out) = 2
  /\ IsCall(out[1], "sendNoteOff")
  /\ IsCall(out[2], "releaseEnvelope")
  /\ lastNote >= 0
  /\ outstanding = 0

\* C2 (fixed note length under the clock): every NoteOff sent while the clock
\* drives the sequencer comes exactly 24 ticks after its NoteOn and is sent by
\* tickNoteDuration.
C2_FixedNoteLength ==
  offBy # "none" => (offBy = "tickNoteDuration" /\ offAge = NOTE_DURATION_TICKS)

\* C5 (step wraparound): for every step index 0..255, at every sequence
\* length the sequencer can hold and on gated and rest steps alike, the
\* playhead after advanceStep(stepIndex) is stepIndex mod stepLength.
C5_Wraparound ==
  /\ stepLength \in 1..SEQUENCER_NUM_STEPS
  /\ \A i \in WrapStepArgs : advanceStep(Begin(Cur), i).playhead = i % stepLength

\* advanceStep has started a note on the last step of a 3-step sequence.
C5_Witness ==
  /\ stepLength = 3
  /\ playhead = 2
  /\ currentNote >= 0
  /\ Len(out) > 0
  /\ IsCall(out[Len(out)], "sendNoteOn")

\* The values the setters are tried with in the claims below.
BadNotes == {25, 40, 255}
OutOfRange(d) ==
  \/ d.note < 0 \/ d.note > 24
  \/ d.velocity < 0 \/ d.velocity > VelUnit
  \/ d.filter < 0 \/ d.filter > FiltUnit

\* C6 (value validation): on a valid step index, both setStep overloads with
\* a note outside 0..24 or a velocity or filter outside [0,1], and setStepNote
\* with a note outside 0..24, leave the target step as it was.
C6_ValueValidation ==
  \A i \in 0..(stepLength - 1) :
    /\ \A d \in {x \in StepArgs : OutOfRange(x)} :
         /\ setStep(Begin(Cur), i, d.gate, d.slide, d.note, d.velocity, d.filter).steps[i]
              = steps[i]
         /\ setStepData(Begin(Cur), i, d).steps[i] = steps[i]
    /\ \A n \in BadNotes : setStepNote(Begin(Cur), i, n).steps[i] = steps[i]

\* C7 (step ranges): every step holds a note in 0..24, a velocity in [0,1] and
\* a filter in [0,1].
C7_StepRanges ==
  \A i \in StepRange :
    /\ steps[i].note \in 0..24
    /\ steps[i].velocity >= 0 /\ steps[i].velocity <= VelUnit
    /\ steps[i].filter >= 0 /\ steps[i].filter <= FiltUnit

\* The step indices at and past the sequence length the uint8_t setters are
\* tried with, and those of the int setters with the negative ones.
OutOfRangeIdx ==
  {i \in IdxArgs \cup {stepLength, stepLength + 1, 15, 16, 17, 127, 128, 254, 255} :
     i >= stepLength /\ i <= 255}
OutOfRangeIntIdx ==
  {i \in IntIdxArgs \cup {-128, -1, stepLength, stepLength + 1, 15, 16, 17, 255, 256} :
     i < 0 \/ i >= stepLength}

\* C8 (out-of-range index): toggleStep, setStepNote, setStepVelocity,
\* setStepFiltFreq and both setStep overloads, called with a step index at or
\* past stepLength (or a negative one where the index is an int), change no
\* field of the sequencer and make no I/O call, whatever the other arguments.
C8_IndexNoOp ==
  LET s == Begin(Cur)
  IN /\ \A i \in OutOfRangeIdx :
          /\ toggleStep(s, i) = s
          /\ \A n \in NoteArgs \cup {0, 24} : setStepNote(s, i, n) = s
          /\ \A v \in VelByteArgs \cup {0, 127} : setStepVelocity(s, i, v) = s
          /\ \A f \in FiltFreqArgs \cup {0, FiltUnit} : setStepFiltFreq(s, i, f) = s
     /\ \A i \in OutOfRangeIntIdx, d \in StepArgs :
          /\ setStep(s, i, d.gate, d.slide, d.note, d.velocity, d.filter) = s
          /\ setStepData(s, i, d) = s

\* A call has left a sounding note, a running sequencer and a gated step 2
\* past a sequence length of 1 as they were, and made no I/O call.
C8_Witness ==
  /\ stepLength = 1
  /\ steps[2].gate
  /\ running
  /\ currentNote >= 0
  /\ noteDurationCounter = NOTE_DURATION_TICKS
  /\ out = <<>>

\* C9 (playhead): the playhead is in [0, stepLength) in every state.
C9_PlayheadInRange == playhead >= 0 /\ playhead < stepLength

\* C10 (unused steps): every step at or past stepLength has its gate off.
C10_UnusedStepsCleared == \A i \in StepRange : i >= stepLength => ~steps[i].gate

C14_PlayStepNowFrame ==
  \A i \in 0..255 :
    LET s == Begin(Cur)
        t == playStepNow(s, i)
    IN /\ t = [s EXCEPT !.out = t.out]
       /\ CallsOf(t.out, "sendNoteOn") = {}
       /\ CallsOf(t.out, "sendNoteOff") = {}
       /\ i >= stepLength => t.out = <<>>
       /\ i < stepLength => Len(t.out) = 4

\* playStepNow has previewed a step while a note is in the middle of its
\* countdown: the last call logged four calls ending with triggerEnvelope
\* (advanceStep would end with sendNoteOn).
C14_Witness ==
  /\ Len(out) = 4
  /\ IsCall(out[4], "triggerEnvelope")
  /\ currentNote >= 0
  /\ outstanding = 1
  /\ noteDurationCounter > 0
  /\ noteDurationCounter < NOTE_DURATION_TICKS
  /\ running

\* The synth-engine calls of a call log, in order.
Dispatched(log) ==
  SelectSeq(log, LAMBDA c : c[1] \in {"setNote1", "setVel1", "setFreq1", "triggerEnvelope"})

\* C15 (preview equals playback): for every gated step i below stepLength,
\* playStepNow(i) passes to setNote1, setVel1 and setFreq1 the values that
\* advanceStep(i) passes, followed by triggerEnvelope.
C15_PreviewLikeAdvance ==
  \A i \in 0..(stepLength - 1) :
    steps[i].gate =>
      Dispatched(playStepNow(Begin(Cur), i).out) = Dispatched(advanceStep(Begin(Cur), i).out)

\* C17 (scale resolution): the MIDI note advanceStep pushes for a gated step
\* holding note n is 36 plus the scale-table entry at clamp(n, 0, 39).
C17_ScaleClamp ==
  \A i \in 0..(stepLength - 1) :
    steps[i].gate =>
      LET a == advanceStep(Begin(Cur), i).out
          expected == MIDI_BASE_NOTE
                        + scale[0][constrain(steps[i].note, 0, SCALE_ARRAY_SIZE - 1)]
      IN \E k \in 1..Len(a) : a[k] = <<"setNote1", expected>>

\* C16 (transport): start() and stop() change the running flag and nothing
\* else: stop() sends no NoteOff, does not call releaseEnvelope and leaves the
\* steps, playhead, currentNote and noteDurationCounter as they were, so a
\* note active at stop() is still active after it; stop() after stop() gives
\* the state of one stop().
C16_TransportFrame ==
  LET s == Begin(Cur)
  IN /\ stop(s) = [s EXCEPT !.running = FALSE]
     /\ start(s) = [s EXCEPT !.running = TRUE]
     /\ stop(s).out = <<>>
     /\ stop(s).steps = steps
     /\ stop(s).playhead = playhead
     /\ stop(s).currentNote = currentNote
     /\ stop(s).noteDurationCounter = noteDurationCounter
     /\ stop(s).outstanding = outstanding
     /\ stop(stop(s)) = stop(s)

\* stop() has been called right after advanceStep(1) started a note: the
\* sequencer is stopped, the note is active with its full duration left, and
\* the call made no I/O call.
C16_Witness ==
  /\ ~running
  /\ out = <<>>
  /\ playhead = 1
  /\ currentNote >= 0
  /\ outstanding = 1
  /\ noteDurationCounter = NOTE_DURATION_TICKS

\* Button i = row*8 + col is touched in a bitmask: the bits of its row input
\* and of its column input are both set.
Pressed(bits, i) ==
  /\ bits # NoBits
  /\ Bit(bits, MATRIX_ROW_INPUTS[(i \div 8) + 1])
  /\ Bit(bits, MATRIX_COL_INPUTS[(i % 8) + 1])

RisingCount(log, i) ==
  Cardinality({k \in 1..Len(log) : log[k].cb = "risingEdge" /\ log[k].buttonIndex = i})

EntriesOf(log, i) == SelectSeq(log, LAMBDA c : c.buttonIndex = i)

\* C20 (dispatch order): a scan stores the new state of every button whether
\* or not handlers are registered; for a button whose state changed it then
\* invokes the rising-edge handler (on a press, when registered) and after it
\* the generic handler (when registered) once with the button index and
\* Pressed or Released as the new state is, the stored state being the new
\* one during both; a button whose state did not change causes no invocation.
C20_DispatchOrder ==
  mpr121 =>
    \A touched \in TouchArgs :
      LET t == Matrix_scan(BeginMx(Mx), touched)
      IN \A i \in 0..(MATRIX_BUTTON_COUNT - 1) :
           LET now == Pressed(touched, i)
               rising == IF now /\ risingEdgeHandler
                         THEN << [cb |-> "risingEdge", buttonIndex |-> i, type |-> "none",
                                  stored |-> now] >>
                         ELSE <<>>
               event == IF eventHandler
                        THEN << [cb |-> "event", buttonIndex |-> i,
                                 type |-> IF now THEN "PRESSED" ELSE "RELEASED",
                                 stored |-> now] >>
                        ELSE <<>>
           IN /\ t.buttonState[i] = now
              /\ EntriesOf(t.callbacks, i)
                   = IF buttonState[i] # now THEN rising \o event ELSE <<>>

\* With both handlers registered, one scan saw button 0 go down and button 7
\* go up: rising edge for 0, Pressed for 0, Released for 7.
C20_Witness ==
  callbacks = << [cb |-> "risingEdge", buttonIndex |-> 0, type |-> "none", stored |-> TRUE],
                 [cb |-> "event", buttonIndex |-> 0, type |-> "PRESSED", stored |-> TRUE],
                 [cb |-> "event", buttonIndex |-> 7, type |-> "RELEASED", stored |-> FALSE] >>

\* ---- ClockManager (update, start and stop as section 4.1 describes them) ----

\* stepInterval, the time between two ticks, in time units.
STEP_INTERVAL == 2

\* Time elapsed between two update() calls: none, less than an interval, one
\* interval, two and a half intervals.
ElapseArgs == {0, 1, STEP_INTERVAL, 2 * STEP_INTERVAL + 1}

Clk == [running |-> clockRunning, currentTick |-> clockTick, currentStep |-> clockStep, sinceLastStep |-> sinceLastStep, stepCallback |-> stepCallback, clockCallback |-> clockCallback, out |-> clockOut, ticks |-> ticksEmitted, starved |-> starved]

\* A public call starts with an empty callback log.
BeginClk(c) == [c EXCEPT !.out = <<>>]

CommitClk(c) ==
  /\ c.ticks <= MaxTicks
  /\ clockRunning' = c.running
  /\ clockTick' = c.currentTick
  /\ clockStep' = c.currentStep
  /\ sinceLastStep' = c.sinceLastStep
  /\ stepCallback' = c.stepCallback
  /\ clockCallback' = c.clockCallback
  /\ clockOut' = c.out
  /\ ticksEmitted' = c.ticks
  /\ starved' = c.starved

\* setStepCallback(callback), setClockCallback(callback): an empty
\* std::function unregisters.
Clock_setStepCallback(c, callback) == [c EXCEPT !.stepCallback = callback]

Clock_setClockCallback(c, callback) == [c EXCEPT !.clockCallback = callback]

\* handleClockTick(): advance currentTick, invoke the tick callback if one is
\* registered.
Clock_handleClockTick(c) ==
  [c EXCEPT !.currentTick = (@ + 1) % TICKS_PER_STEP,
            !.ticks = @ + 1,
            !.out = IF c.clockCallback THEN Append(@, <<"clockCallback">>) ELSE @]

\* handleStepAdvance(): advance currentStep, wrapping at 16, invoke the step
\* callback with the new index if one is registered.
Clock_handleStepAdvance(c) ==
  LET step == (c.currentStep + 1) % CLOCK_NUM_STEPS
  IN [c EXCEPT !.currentStep = step,
               !.out = IF c.stepCallback THEN Append(@, <<"stepCallback", step>>) ELSE @]

\* Mutant: the step advances on every tick.
Clock_update_StepEveryTick(c, elapsed) ==
  LET since == c.sinceLastStep + elapsed
  IN IF ~c.running THEN c
     ELSE IF since < STEP_INTERVAL THEN [c EXCEPT !.sinceLastStep = since, !.starved = 0]
     ELSE Clock_handleStepAdvance(Clock_handleClockTick(
            [c EXCEPT !.sinceLastStep = 0, !.starved = since \div STEP_INTERVAL - 1]))

\* Mutant: lastStepTime advances by one interval, so that a later call emits
\* the ticks that were missed.
Clock_update_CatchUp(c, elapsed) ==
  LET since == c.sinceLastStep + elapsed
  IN IF ~c.running THEN c
     ELSE IF since < STEP_INTERVAL THEN [c EXCEPT !.sinceLastStep = since, !.starved = 0]
     ELSE LET t == Clock_handleClockTick(
                     [c EXCEPT !.sinceLastStep = since - STEP_INTERVAL,
                               !.starved = since \div STEP_INTERVAL - 1])
          IN IF t.currentTick = 0 THEN Clock_handleStepAdvance(t) ELSE t

\* update(), called when elapsed time units have passed since the previous
\* call: nothing while stopped or before the interval has elapsed; otherwise
\* lastStepTime = now, one tick, and on every sixth tick one step.
Clock_update(c, elapsed) ==
  LET since == c.sinceLastStep + elapsed
  IN IF ~c.running THEN c
     ELSE IF since < STEP_INTERVAL THEN [c EXCEPT !.sinceLastStep = since, !.starved = 0]
     ELSE LET t == Clock_handleClockTick(
                     [c EXCEPT !.sinceLastStep = 0,
                               !.starved = since \div STEP_INTERVAL - 1])
          IN IF t.currentTick = 0 THEN Clock_handleStepAdvance(t) ELSE t

\* start(): running, counters reset to 0.
Clock_start(c) ==
  [c EXCEPT !.running = TRUE, !.currentTick = 0, !.currentStep = 0,
            !.sinceLastStep = 0, !.ticks = 0, !.starved = 0]

\* stop()
Clock_stop(c) == [c EXCEPT !.running = FALSE]

ClockOthers == UNCHANGED <<seqVars, scale, offAge, offBy, matrixVars, adsrVars, atomicVars, triggerVars, pressVars>>

ClockSetStepCallbackCall ==
  /\ \E callback \in BOOLEAN : CommitClk(Clock_setStepCallback(BeginClk(Clk), callback))
  /\ ClockOthers

ClockSetClockCallbackCall ==
  /\ \E callback \in BOOLEAN : CommitClk(Clock_setClockCallback(BeginClk(Clk), callback))
  /\ ClockOthers

ClockUpdateCall ==
  /\ \E elapsed \in ElapseArgs : CommitClk(Clock_update(BeginClk(Clk), elapsed))
  /\ ClockOthers

ClockStartCall ==
  /\ CommitClk(Clock_start(BeginClk(Clk)))
  /\ ClockOthers

ClockStopCall ==
  /\ CommitClk(Clock_stop(BeginClk(Clk)))
  /\ ClockOthers

NextClockManager ==
  \/ ClockSetStepCallbackCall
  \/ ClockSetClockCallbackCall
  \/ ClockUpdateCall
  \/ ClockStartCall
  \/ ClockStopCall

SpecClockManager == Init /\ [][NextClockManager]_vars

\* ---- SystemState between the control-rate and the audio-rate context ----

\* The setNote1, setVel1 and setFreq1 calls of a call log, in order.
AtomicStores(log) == SelectSeq(log, LAMBDA c : c[1] \in {"setNote1", "setVel1", "setFreq1"})

\* Mutant: a store replaces the low bits only.
store_Torn(old, desired) == (old \div 16) * 16 + (desired % 16)

\* std::atomic<T>::store(desired): the whole value is replaced.
store(old, desired) == desired

\* A gated step that differs from the steps of init() in note and velocity.
AtomicStepArgs == {MkStep(TRUE, FALSE, 24, VelUnit, FiltUnit)}

\* The control-rate context: calls between two advanceStep calls.
AtomicInitCall ==
  /\ pending = <<>>
  /\ InitCall

AtomicSetStepCall ==
  /\ pending = <<>>
  /\ \E i \in {1}, d \in AtomicStepArgs : Commit(setStepData(Begin(Cur), i, d))
  /\ Others

\* advanceStep is entered; its stores to SystemState follow one at a time.
AtomicAdvanceStepCall ==
  /\ pending = <<>>
  /\ \E i \in {0, 1} :
       LET s == advanceStep(Begin(Cur), i)
       IN Commit(s) /\ pending' = AtomicStores(s.out)
  /\ UNCHANGED <<note1, vel1, freq1, seen, rpc, stores>>
  /\ UNCHANGED <<scale, clockVars, matrixVars, adsrVars, managerVars, triggerVars, pressVars>>

\* The next store of the running advanceStep: HardwareSequencerIO forwards
\* setNote1, setVel1, setFreq1 to the atomic of that name.
AtomicStoreStep ==
  /\ pending # <<>>
  /\ LET c == Head(pending)
     IN /\ note1' = IF c[1] = "setNote1" THEN store(note1, c[2]) ELSE note1
        /\ vel1' = IF c[1] = "setVel1" THEN store(vel1, c[2]) ELSE vel1
        /\ freq1' = IF c[1] = "setFreq1" THEN store(freq1, c[2]) ELSE freq1
        /\ stores' = stores \cup {c}
  /\ pending' = Tail(pending)
  /\ UNCHANGED <<seen, rpc>>
  /\ UNCHANGED <<seqVars, scale, clockVars, matrixVars, adsrVars, managerVars, triggerVars, pressVars>>

\* The audio-rate context loads note1, then vel1, then freq1 for every sample.
AtomicLoadStep ==
  /\ seen' = CASE rpc = 0 -> [seen EXCEPT !.note1 = note1]
                [] rpc = 1 -> [seen EXCEPT !.vel1 = vel1]
                [] OTHER -> [seen EXCEPT !.freq1 = freq1]
  /\ rpc' = (rpc + 1) % 3
  /\ UNCHANGED <<note1, vel1, freq1, pending, stores>>
  /\ UNCHANGED <<seqVars, scale, clockVars, matrixVars, adsrVars, managerVars, triggerVars, pressVars>>

NextAtomic ==
  \/ AtomicInitCall
  \/ AtomicSetStepCall
  \/ AtomicAdvanceStepCall
  \/ AtomicStoreStep
  \/ AtomicLoadStep

SpecAtomic == Init /\ [][NextAtomic]_vars

\* ---- the scale table written through setScaleNote ----

\* SystemState::setScaleNote
setScaleNote(table, scaleIndex, noteIndex, value) ==
  IF scaleIndex >= 0 /\ scaleIndex < SCALE_ROWS /\ noteIndex >= 0 /\ noteIndex < SCALE_COLS
  THEN [table EXCEPT ![scaleIndex][noteIndex] = value]
  ELSE table

\* Table entries that resolve to the notes 36, 127, 128 and 255.
WidthValueArgs == {0, 127 - MIDI_BASE_NOTE, 128 - MIDI_BASE_NOTE, 255 - MIDI_BASE_NOTE}

WidthSetScaleNoteCall ==
  /\ \E noteIndex \in {0, SCALE_COLS}, value \in WidthValueArgs :
       scale' = setScaleNote(scale, 0, noteIndex, value)
  /\ UNCHANGED <<seqVars, clockVars, matrixVars, adsrVars, managerVars, atomicVars, triggerVars, pressVars>>

NextWidth ==
  \/ WidthSetScaleNoteCall
  \/ InitCall
  \/ AdvanceStepCall
  \/ TickNoteDurationCall

SpecWidth == Init /\ [][NextWidth]_vars

\* ---- Adsr, free run: one rising edge, then Process on every sample ----

\* A sustain level close to 1: 0.999f.
HIGH_SUSTAIN == 16760439

\* Decay coefficient 1 - expf(-1 / (time * sample_rate_)) and sustain level:
\* coefficient 1/2 with sustain 0.7 and 1, and coefficient 1/4800 (decay time
\* 0.6 s at the 8 kHz of AudioEngine.h, or the default 0.1 s at 48 kHz) with
\* sustain 0.999.  The sustain levels are in [0.5, 1], where the float32
\* spacing is one LevelUnit.
FreeArgs == {<<<<1, 2>>, DEFAULT_SUSTAIN>>, <<<<1, 2>>, LevelUnit>>, <<<<1, 4800>>, HIGH_SUSTAIN>>}

\* SetTime(ADSR_SEG_DECAY, ...) and SetSustainLevel before the trigger.
AdsrFreeSetupCall ==
  /\ triggers = 0
  /\ \E a \in FreeArgs : CommitEnv(SetSustainLevel(SetTime(Env, "DECAY", a[1]), a[2]))
  /\ AdsrOthers

\* Process once per sample; the gate rises once and may fall at any sample
\* after that.
AdsrFreeProcessCall ==
  /\ \E gate \in BOOLEAN :
       /\ gate => (gate_ \/ triggers = 0)
       /\ CommitEnv(Process(Env, gate))
  /\ AdsrOthers

NextAdsrFree ==
  \/ AdsrFreeSetupCall
  \/ AdsrFreeProcessCall

\* The audio callback calls Process for every sample.
SpecAdsrFree == Init /\ [][NextAdsrFree]_vars /\ WF_vars(AdsrFreeProcessCall)

\* |a - b|
Dist(a, b) == IF a >= b THEN a - b ELSE b - a

\* C21 (ADSR stage transitions): the stage is one of Idle, Attack, Decay,
\* Release (never Sustain), and the only stage changes are: any stage to
\* Attack on a false-to-true change of gate or on Retrigger; Attack to Decay
\* when the level exceeds 1 and is clamped to 1; Decay to Release when the
\* level is within 0.0001 of the sustain level; Release to Idle when the level
\* falls below 0 and is clamped to 0.  A true-to-false change of gate does
\* not change the stage.
C21_StageTransitions ==
  /\ mode_ \in {"IDLE", "ATTACK", "DECAY", "RELEASE"}
  /\ \A hard \in BOOLEAN : Retrigger(Env, hard).mode_ = "ATTACK"
  /\ \A gate \in BOOLEAN :
       LET g == ProcessGate(Env, gate)
           t == ProcessSegment(g)
       IN /\ (gate /\ ~gate_) => g.mode_ = "ATTACK"
          /\ ~(gate /\ ~gate_) => g.mode_ = mode_
          /\ t.mode_ # g.mode_ =>
               \/ /\ g.mode_ = "ATTACK" /\ t.mode_ = "DECAY"
                  /\ Approach(g.x_, g.attackD0_, g.attackTarget_) > LevelUnit
                  /\ t.x_ = LevelUnit
               \/ /\ g.mode_ = "DECAY" /\ t.mode_ = "RELEASE"
                  /\ Dist(t.x_, sus_level_) < SUSTAIN_EPSILON
               \/ /\ g.mode_ = "RELEASE" /\ t.mode_ = "IDLE"
                  /\ Approach(g.x_, g.releaseD0_, RELEASE_TARGET) < 0
                  /\ t.x_ = 0

\* One rising edge has taken the envelope through Attack, Decay and Release
\* back to Idle while the gate stayed high.
C21_Witness ==
  /\ mode_ = "IDLE"
  /\ triggers = 1
  /\ gate_
  /\ sus_level_ = LevelUnit \div 2

\* C23 (retrigger): from every stage and level Retrigger(true) sets the stage
\* to Attack and the level to 0, Retrigger(false) sets the stage to Attack and
\* keeps the level; neither changes the stored gate, the coefficients, the
\* attack target or the sustain level.
C23_Retrigger ==
  \A hard \in BOOLEAN :
    Retrigger(Env, hard) = [Env EXCEPT !.mode_ = "ATTACK",
                                       !.x_ = IF hard THEN 0 ELSE x_,
                                       !.triggers = @ + 1]

\* Retrigger(true) has reset a level that the last Process call returned as
\* positive: the stage is Attack at level 0.
C23_Witness ==
  /\ mode_ = "ATTACK"
  /\ x_ = 0
  /\ adsrOut > 0
  /\ gate_

\* C24 (envelope range): with the sustain level in [0,1] and the coefficients
\* in (0,1], the stored level and every value Process returns are in [0,1]
\* under every sequence of gate values and Retrigger calls, and the value
\* returned is 0 when the stage is Idle.
C24_EnvelopeRange ==
  /\ x_ >= 0 /\ x_ <= LevelUnit
  /\ adsrOut >= 0 /\ adsrOut <= LevelUnit
  /\ \A gate \in BOOLEAN :
       LET t == Process(Env, gate)
       IN /\ t.adsrOut >= 0 /\ t.adsrOut <= LevelUnit
          /\ t.x_ >= 0 /\ t.x_ <= LevelUnit
          /\ t.mode_ = "IDLE" => t.adsrOut = 0

\* An attack restarted from a level above 0 has been clamped at 1.
C24_Witness ==
  /\ mode_ = "DECAY"
  /\ adsrOut = LevelUnit
  /\ triggers = 2

\* C22 (envelope free-run): after a single rising gate edge, with positive
\* times and a sustain level in [0,1], repeated Process calls eventually reach
\* stage Idle with level 0, whether the gate stays high or falls.
C22_FreeRun == (triggers = 1) ~> (mode_ = "IDLE" /\ x_ = 0)

\* C25 (clock step cadence): while the clock runs, each emitted tick advances
\* currentTick and invokes the tick callback; on exactly every sixth tick the
\* clock then advances currentStep by one, wrapping from 15 to 0, and invokes
\* the step callback with the new index, after the tick callback of that tick;
\* no call invokes a callback while the clock is stopped.
C25_StepCadence ==
  /\ clockTick = ticksEmitted % TICKS_PER_STEP
  /\ clockStep = (ticksEmitted \div TICKS_PER_STEP) % CLOCK_NUM_STEPS
  /\ Clock_start(BeginClk(Clk)).out = <<>>
  /\ Clock_stop(BeginClk(Clk)).out = <<>>
  /\ \A elapsed \in ElapseArgs :
       LET c == BeginClk(Clk)
           t == Clock_update(c, elapsed)
           sixth == t.ticks % TICKS_PER_STEP = 0
       IN /\ ~c.running => t = c
          /\ t.ticks \in {c.ticks, c.ticks + 1}
          /\ t.ticks = c.ticks =>
               /\ t.out = <<>>
               /\ t.currentTick = c.currentTick
               /\ t.currentStep = c.currentStep
          /\ t.ticks = c.ticks + 1 =>
               /\ t.currentTick = (c.currentTick + 1) % TICKS_PER_STEP
               /\ t.currentStep = IF sixth THEN (IF c.currentStep = 15 THEN 0 ELSE c.currentStep + 1)
                                            ELSE c.currentStep
               /\ t.out = (IF c.clockCallback THEN << <<"clockCallback">> >> ELSE <<>>)
                          \o (IF sixth /\ c.stepCallback
                              THEN << <<"stepCallback", t.currentStep>> >> ELSE <<>>)

\* The 96th tick since start() has wrapped the step from 15 to 0 and invoked
\* the tick callback, then the step callback with index 0.
C25_Witness ==
  /\ clockRunning
  /\ ticksEmitted = 96
  /\ clockStep = 0
  /\ clockOut = << <<"clockCallback">>, <<"stepCallback", 0>> >>

CountOf(log, name) == Len(SelectSeq(log, LAMBDA c : c[1] = name))

\* C26 (no callback storms): an update() call invokes at most one tick
\* callback and at most one step callback, however much time has elapsed
\* since the previous call, and the ticks missed are not emitted later: after
\* a call that emitted a tick, a call made before another whole interval has
\* elapsed emits nothing.
C26_NoCallbackStorm ==
  \A elapsed \in ElapseArgs :
    LET t == Clock_update(BeginClk(Clk), elapsed)
    IN /\ CountOf(t.out, "clockCallback") <= 1
       /\ CountOf(t.out, "stepCallback") <= 1
       /\ t.ticks <= ticksEmitted + 1
       /\ t.ticks = ticksEmitted + 1 =>
            \A again \in {e \in ElapseArgs : e < STEP_INTERVAL} :
              LET u == Clock_update(BeginClk(t), again)
              IN u.out = <<>> /\ u.ticks = t.ticks

\* An update() call that came two and a half intervals late has invoked the
\* tick callback once.
C26_Witness ==
  /\ clockRunning
  /\ starved > 0
  /\ clockOut = << <<"clockCallback">> >>

\* The values stored to a field so far, with its initial value.
StoredTo(name, initial) == {initial} \cup {c[2] : c \in {d \in stores : d[1] = name}}

\* C27 (cross-context consistency): while advanceStep runs on the control-rate
\* context and the audio-rate context loads note1, vel1 and freq1, every load
\* returns a value that a store stored whole (or the initial value), and the
\* fields change only by a store of the control-rate context.
C27_CrossContext ==
  /\ [](/\ note1 \in StoredTo("setNote1", INITIAL_NOTE1)
        /\ vel1 \in StoredTo("setVel1", INITIAL_VEL1)
        /\ freq1 \in StoredTo("setFreq1", INITIAL_FREQ1)
        /\ seen.note1 \in StoredTo("setNote1", INITIAL_NOTE1)
        /\ seen.vel1 \in StoredTo("setVel1", INITIAL_VEL1)
        /\ seen.freq1 \in StoredTo("setFreq1", INITIAL_FREQ1))
  /\ [][<<note1, vel1, freq1>>' # <<note1, vel1, freq1>> =>
          /\ pending # <<>>
          /\ pending' = Tail(pending)
          /\ <<seen, rpc>>' = <<seen, rpc>>]_vars

\* The audio-rate context has loaded, in one pass, the note of the new step
\* (60) and the velocity of the previous step (100/127), while advanceStep has
\* still to store the new velocity and filter.
C27_Witness ==
  /\ rpc = 2
  /\ seen.note1 = MIDI_BASE_NOTE + 24
  /\ note1 = MIDI_BASE_NOTE + 24
  /\ seen.vel1 = (100 * VelUnit) \div 127
  /\ pending = << <<"setVel1", VelUnit>>, <<"setFreq1", FiltUnit>> >>

\* The sendNoteOff advanceStep sends first when a note is active.
ForcedOff == IF currentNote >= 0 THEN << <<"sendNoteOff", ToU8(currentNote), 0, MIDI_CHANNEL>> >> ELSE <<>>

\* C28 (order of I/O calls for a gated step): advanceStep on a step with gate
\* = true calls sendNoteOff for the previous note (only when a note was
\* active), then setNote1, setVel1, setFreq1, triggerEnvelope, then sendNoteOn
\* with the resolved note on channel 1, and nothing else; afterwards
\* currentNote is that note, noteDurationCounter is 24 and lastNote is that
\* note.
C28_GatedStepOrder ==
  \A i \in AdvanceArgs :
    LET t == advanceStep(Begin(Cur), i)
        st == steps[ToU8(i) % stepLength]
        note == ResolveNote(st.note)
        n == Len(ForcedOff)
    IN st.gate =>
         /\ Len(t.out) = n + 5
         /\ SubSeq(t.out, 1, n) = ForcedOff
         /\ t.out[n + 1] = <<"setNote1", note>>
         /\ t.out[n + 2] = <<"setVel1", st.velocity>>
         /\ t.out[n + 3] = <<"setFreq1", st.filter>>
         /\ t.out[n + 4] = <<"triggerEnvelope">>
         /\ IsCall(t.out[n + 5], "sendNoteOn")
         /\ t.out[n + 5][2] = note
         /\ t.out[n + 5][4] = 1
         /\ t.currentNote = note
         /\ t.noteDurationCounter = 24
         /\ t.lastNote = note

\* advanceStep has replaced an active note on an edited, gated step: six
\* calls, from the NoteOff to the NoteOn of the note it resolved.
C28_Witness ==
  /\ Len(out) = 6
  /\ IsCall(out[1], "sendNoteOff")
  /\ IsCall(out[2], "setNote1")
  /\ IsCall(out[5], "triggerEnvelope")
  /\ IsCall(out[6], "sendNoteOn")
  /\ currentNote = out[2][2]
  /\ currentNote > MIDI_BASE_NOTE
  /\ noteDurationCounter = NOTE_DURATION_TICKS
  /\ lastNote = currentNote

\* C29 (rest step): advanceStep on a step with gate = false sends NoteOff for
\* the active note if there is one, exactly once, then calls releaseEnvelope;
\* it sends no NoteOn and writes no note, velocity or filter target;
\* afterwards lastNote is -1, currentNote is unset and noteDurationCounter is
\* 0.
C29_RestStep ==
  \A i \in AdvanceArgs :
    LET t == advanceStep(Begin(Cur), i)
        st == steps[ToU8(i) % stepLength]
    IN ~st.gate =>
         /\ t.out = ForcedOff \o << <<"releaseEnvelope">> >>
         /\ t.lastNote = -1
         /\ t.currentNote = -1
         /\ t.noteDurationCounter = 0

\* advanceStep has landed on a rest while a note was active: the NoteOff, then
\* releaseEnvelope, and lastNote is -1.
C29_Witness ==
  /\ out = << <<"sendNoteOff", MIDI_BASE_NOTE, 0, MIDI_CHANNEL>>, <<"releaseEnvelope">> >>
  /\ ~steps[playhead].gate
  /\ lastNote = -1
  /\ currentNote = -1
  /\ noteDurationCounter = 0

\* C30 (countdown in isolation): with advanceStep the only call that starts
\* or ends a note besides tickNoteDuration, an active note has been ticked
\* 24 - noteDurationCounter times since its NoteOn; a tickNoteDuration call
\* sends NoteOff and calls releaseEnvelope if and only if it is the 24th of
\* them, the calls before it only decrement the counter by one, and a call
\* while no note is active changes nothing and sends nothing.
C30_Countdown ==
  /\ currentNote >= 0 => (noteDurationCounter = NOTE_DURATION_TICKS - age /\ age < NOTE_DURATION_TICKS)
  /\ LET s == Begin(Cur)
         t == tickNoteDuration(s)
     IN /\ (currentNote >= 0 /\ age + 1 < NOTE_DURATION_TICKS) =>
             t = [s EXCEPT !.noteDurationCounter = @ - 1, !.age = @ + 1]
        /\ (currentNote >= 0 /\ age + 1 = NOTE_DURATION_TICKS) =>
             /\ t.out = << <<"sendNoteOff", ToU8(currentNote), 0, MIDI_CHANNEL>>, <<"releaseEnvelope">> >>
             /\ t.currentNote = -1
             /\ t.noteDurationCounter = 0
        /\ currentNote < 0 => t = s

\* The 24th tickNoteDuration call after the NoteOn of advanceStep has sent the
\* NoteOff and released the envelope; lastNote still names the note.
C30_Witness ==
  /\ out = << <<"sendNoteOff", MIDI_BASE_NOTE, 0, MIDI_CHANNEL>>, <<"releaseEnvelope">> >>
  /\ lastNote = MIDI_BASE_NOTE
  /\ currentNote = -1
  /\ noteDurationCounter = 0
  /\ steps[playhead].gate

\* C31 (scale lookup stays in bounds): for every note value a step can hold,
\* also the values 25..255 written through setStepNote, the note index that
\* advanceStep and playStepNow pass to getScaleNote is in 0..39 and the scale
\* index is 0, so the lookup reads an entry of the scale table.
C31_ScaleLookupInBounds ==
  /\ \A n \in 0..255 : ScaleIndexOf(n) \in 0..(SCALE_ARRAY_SIZE - 1)
  /\ \A i \in StepRange :
       LET k == ScaleIndexOf(steps[i].note)
       IN /\ steps[i].note \in 0..255
          /\ k \in 0..(SCALE_ARRAY_SIZE - 1)
          /\ k < SCALE_COLS
          /\ 0 < SCALE_ROWS
          /\ ResolveNote(steps[i].note) = MIDI_BASE_NOTE + scale[0][k]

\* A step holds note 255, written through setStepNote, and the last call
\* resolved it through entry 0 of the scale table.
C31_Witness ==
  /\ steps[playhead].note = 255
  /\ Len(out) >= 4
  /\ \E k \in 1..Len(out) : out[k] = <<"setNote1", MIDI_BASE_NOTE + scale[0][0]>>

\* C32 (stepLength range): in every reachable state stepLength is in 1..16;
\* setStepLength(len) stores len when 1 <= len <= 16 and 16 for every other
\* argument, and changes no step, playhead or voice state and sends nothing.
C32_StepLengthRange ==
  /\ stepLength \in 1..SEQUENCER_NUM_STEPS
  /\ \A len \in 0..255 :
       setStepLength(Begin(Cur), len) =
         [Begin(Cur) EXCEPT !.stepLength = IF 1 <= len /\ len <= 16 THEN len ELSE 16]

\* A note is active on step 2 of a sequence that setStepLength has since cut
\* to 1 step.
C32_Witness ==
  /\ stepLength = 1
  /\ playhead = 2
  /\ currentNote >= 0

\* C33 (envelope trigger edge per gated step): with the clock driving the
\* sequencer, trigenv1 is false immediately before every triggerEnvelope
\* stores true, also when the previous step was gated.
C33_TriggerEdge == ~trigWas

\* C34 (note number width): for every value 36 + getScaleNote(0, index) in
\* 0..255, after advanceStep on a gated step the note is tracked as active
\* (currentNote >= 0), and the next NoteOff, here the one a following
\* advanceStep sends first, carries the note number of the NoteOn.
C34_NoteWidth ==
  \A i \in AdvanceArgs :
    LET st == steps[ToU8(i) % stepLength]
        note == ResolveNote(st.note)
        t == advanceStep(Begin(Cur), i)
        u == advanceStep(Begin(t), i)
    IN (st.gate /\ note \in 0..255) =>
         /\ t.currentNote >= 0
         /\ t.out[Len(t.out)] = <<"sendNoteOn", note, VelocityByte(st.velocity), MIDI_CHANNEL>>
         /\ u.out[1] = <<"sendNoteOff", note, 0, MIDI_CHANNEL>>

\* C35 (press/release alternation): with the generic handler registered
\* between Matrix_init and the first scan, over every sequence of scans with
\* arbitrary bitmasks the events delivered for a button alternate Pressed,
\* Released, Pressed, ..., starting with Pressed; a scan delivers at most one
\* event per button, in ascending button index; and when an event for i is
\* delivered Matrix_getButtonState(i) already returns the event's new state.
C35_PressReleaseAlternation ==
  /\ eventHandler =>
       \A i \in 0..(MATRIX_BUTTON_COUNT - 1) :
         (delivered[i] = "PRESSED") <=> Matrix_getButtonState(Mx, i)
  /\ \A touched \in TouchArgs :
       LET t == Matrix_scan(BeginMx(Mx), touched)
       IN /\ \A i \in 0..(MATRIX_BUTTON_COUNT - 1) :
               LET e == EventsFor(t.callbacks, i)
               IN /\ Len(e) <= 1
                  /\ Len(e) = 1 =>
                       /\ e[1].type = IF delivered[i] = "PRESSED" THEN "RELEASED" ELSE "PRESSED"
                       /\ e[1].stored = (e[1].type = "PRESSED")
          /\ \A j, k \in 1..Len(t.callbacks) :
               j < k => t.callbacks[j].buttonIndex <= t.callbacks[k].buttonIndex

\* Button 0 has been pressed and released; the last scan pressed buttons 7
\* and 31 and delivered the event for 31 after the one for 7.
C35_Witness ==
  /\ eventHandler
  /\ delivered[7] = "PRESSED"
  /\ delivered[31] = "PRESSED"
  /\ delivered[0] = "RELEASED"
  /\ Len(callbacks) >= 2
  /\ callbacks[Len(callbacks)].buttonIndex = 31
  /\ \E k \in 1..Len(callbacks) : callbacks[k] = [cb |-> "event", buttonIndex |-> 7, type |-> "PRESSED", stored |-> TRUE]

\* C36 (countdown/voice coupling): in every state reachable by the calls of
\* the sequencer, currentNote unset implies noteDurationCounter = 0 and
\* currentNote set implies 1 <= noteDurationCounter <= 24.
C36_CountdownVoiceCoupling ==
  /\ currentNote < 0 => noteDurationCounter = 0
  /\ currentNote >= 0 => (1 <= noteDurationCounter /\ noteDurationCounter <= 24)

\* handleNoteOff has ended a note in the middle of its countdown, after an
\* edit of the pattern.
C36_Witness ==
  /\ out = << <<"sendNoteOff", MIDI_BASE_NOTE, 0, MIDI_CHANNEL>> >>
  /\ currentNote = -1
  /\ noteDurationCounter = 0
  /\ age = 0
  /\ edits > 0
====
